---- MODULE Spec2Model ----
(***************************************************************************)
(* Model of easy_hooks (src/src/lib.rs): the thread-local generational     *)
(* Store (data_a / data_b / mode / keys_by_id / ids), the LocalState       *)
(* handle built by use_state, and Context built by create_context.        *)
(*                                                                         *)
(* User callbacks (the func of LocalState::get / LocalState::set and of     *)
(* Context::get) run between two store calls, with the                     *)
(* STORE borrow released, so each such API call is split at the callback:  *)
(* the part before the callback pushes a frame on `stack`, the callback    *)
(* may call any API function, and Return runs the part after the callback. *)
(* A panic ends the run (no action is enabled afterwards).                 *)
(***************************************************************************)
EXTENDS Integers, Sequences, FiniteSets, TLC

\* ---------------------------------------------------------------- bounds
NumPositions == 1      \* call-graph positions that call use_state
MaxVal == 1            \* stored values are 0..MaxVal
MaxContexts == 2       \* create_context calls per run
MaxCells == 3          \* Rc::new allocations per run
MaxDepth == 2          \* nested callbacks in flight

\* ------------------------------------------------------------ value sets
Positions == 1..NumPositions
Vals == 0..MaxVal
StateTypes == {"T", "U"}          \* the T of use_state::<T>
CtxTypes == {"Rc<T>", "Rc<U>"}    \* Context<T> stores Rc<T>
Types == StateTypes \cup CtxTypes

\* Option<T>
None == {}
Some(v) == {v}
Unwrap(o) == CHOOSE v \in o : TRUE

\* Id::new(): the topo CallId of the calling position (external identity
\* provider: stable per position, distinct for distinct positions).
Id_new(p) == <<"pos", p>>

\* Id::in_context(context_id): root-scoped CallId in slot context_id.
\* mutant: every context is bound to the identity of slot 0
Id_in_context_shared(context_id) == <<"ctx", 0>>

Id_in_context(context_id) == <<"ctx", context_id>>

PosIds == {Id_new(p) : p \in Positions}
CtxIds == {Id_in_context(n) : n \in 0..(MaxContexts - 1)}
Ids == PosIds \cup CtxIds
StatePairs == PosIds \X StateTypes
CtxPairs == CtxIds \X CtxTypes
Pairs == StatePairs \cup CtxPairs

\* ------------------------------------------------- maps (HashMap / slotmap)
EmptyMap == [k \in {} |-> 0]
MapInsert(f, k, v) == [j \in (DOMAIN f) \cup {k} |-> IF j = k THEN v ELSE f[j]]
MapRemove(f, k) == [j \in (DOMAIN f) \ {k} |-> f[j]]

\* DefaultKey::default() is the null key
NullKey == 0

\* ------------------------------------------------------------- Mode
Mode_reverse(m) == IF m = "A" THEN "B" ELSE "A"

\* ------------------------------------------------------------- Store
Store_new == [data_a |-> EmptyMap, data_b |-> EmptyMap, ids |-> <<>>,
              keys_by_id |-> EmptyMap, mode |-> "A"]

get_datamap(s, m) == IF m = "A" THEN s.data_a ELSE s.data_b

get_datamap_mut(s, m, dm) ==
    IF m = "A" THEN [s EXCEPT !.data_a = dm] ELSE [s EXCEPT !.data_b = dm]

\* Option<&SecondaryMap<DefaultKey, T>>
get_secondarymap(s, ty, m) ==
    IF ty \in DOMAIN get_datamap(s, m) THEN Some(get_datamap(s, m)[ty]) ELSE None

register_secondarymap(s, ty, m) ==
    get_datamap_mut(s, m, MapInsert(get_datamap(s, m), ty, EmptyMap))

\* the store after get_mut_secondarymap::<T>(m): the table is registered
get_mut_secondarymap(s, ty, m) ==
    IF ty \in DOMAIN get_datamap(s, m) THEN s ELSE register_secondarymap(s, ty, m)

\* writes table sm back as the SecondaryMap<_, ty> of generation m
put_secondarymap(s, ty, m, sm) ==
    get_datamap_mut(s, m, MapInsert(get_datamap(s, m), ty, sm))

\* self.keys_by_id.get(id).copied().unwrap_or_default()
key_of(s, id) == IF id \in DOMAIN s.keys_by_id THEN s.keys_by_id[id] ELSE NullKey

state_exists(s, ty, m, id) ==
    /\ id \in DOMAIN s.keys_by_id
    /\ get_secondarymap(s, ty, m) # None
    /\ s.keys_by_id[id] \in DOMAIN Unwrap(get_secondarymap(s, ty, m))

\* mutant: the generation that was current is the one cleared
Store_sweep_clears_current(s) ==
    IF s.mode = "A"
    THEN [s EXCEPT !.data_a = EmptyMap, !.mode = "B"]
    ELSE [s EXCEPT !.data_b = EmptyMap, !.mode = "A"]

\* mutant: the stale generation is not cleared
Store_sweep_keeps(s) == [s EXCEPT !.mode = Mode_reverse(s.mode)]

Store_sweep(s) ==
    IF s.mode = "A"
    THEN [s EXCEPT !.data_b = EmptyMap, !.mode = "B"]
    ELSE [s EXCEPT !.data_a = EmptyMap, !.mode = "A"]

\* mutant: only the stale generation is looked at
\* mutant: every identity is reported to have a value
state_exists_always(s, ty, id) == TRUE

state_exists_stale_only(s, ty, id) == state_exists(s, ty, Mode_reverse(s.mode), id)

state_exists_with_id(s, ty, id) ==
    state_exists(s, ty, s.mode, id) \/ state_exists(s, ty, Mode_reverse(s.mode), id)

\* mutant: everything counts as marked
state_marked_always(s, ty, id) == TRUE

\* mutant: a value in the stale generation counts as not marked even when the
\* current generation holds one
state_marked_stale_first(s, ty, id) == ~state_exists(s, ty, Mode_reverse(s.mode), id)

state_marked_with_id(s, ty, id) ==
    state_exists(s, ty, s.mode, id) \/ ~state_exists(s, ty, Mode_reverse(s.mode), id)

\* returns [store, item]: item is the Option<T> handed back
\* mutant: the value is read and left in place
Store_remove_peeks(s, ty, id) ==
    LET key == key_of(s, id) IN
    IF key # NullKey /\ state_exists(s, ty, s.mode, id)
    THEN [store |-> s, item |-> Some(get_datamap(s, s.mode)[ty][key])]
    ELSE [store |-> s, item |-> None]

Store_remove_state_with_id(s, ty, id) ==
    LET key == key_of(s, id) IN
    IF key = NullKey
    THEN [store |-> s, item |-> None]
    ELSE LET s1 == get_mut_secondarymap(s, ty, s.mode)
             sm == get_datamap(s1, s.mode)[ty]
         IN IF key \in DOMAIN sm
            THEN [store |-> put_secondarymap(s1, ty, s.mode, MapRemove(sm, key)),
                  item |-> Some(sm[key])]
            ELSE [store |-> s1, item |-> None]

\* mutant: a slot key is allocated on every set
Store_set_fresh_key(s, ty, data, id) ==
    LET newkey == Len(s.ids) + 1
        s1 == [s EXCEPT !.ids = Append(s.ids, id),
                        !.keys_by_id = MapInsert(s.keys_by_id, id, newkey)]
        s2 == get_mut_secondarymap(s1, ty, s.mode)
    IN put_secondarymap(s2, ty, s.mode,
                        MapInsert(get_datamap(s2, s.mode)[ty], newkey, data))

\* mutant: the value is not stored
Store_set_loses(s, ty, data, id) == s

Store_set_state_with_id(s, ty, data, id) ==
    LET key == key_of(s, id) IN
    IF key = NullKey
    THEN LET newkey == Len(s.ids) + 1
             s1 == [s EXCEPT !.ids = Append(s.ids, id),
                             !.keys_by_id = MapInsert(s.keys_by_id, id, newkey)]
             s2 == get_mut_secondarymap(s1, ty, s.mode)
         IN put_secondarymap(s2, ty, s.mode,
                             MapInsert(get_datamap(s2, s.mode)[ty], newkey, data))
    ELSE LET s2 == get_mut_secondarymap(s, ty, s.mode)
         IN put_secondarymap(s2, ty, s.mode,
                             MapInsert(get_datamap(s2, s.mode)[ty], key, data))

\* mutant: the value is removed from the stale generation and not reinserted
Store_mark_drops(s, ty, id) ==
    LET key == key_of(s, id)
        rev == Mode_reverse(s.mode)
        s1 == get_mut_secondarymap(s, ty, rev)
        sm == get_datamap(s1, rev)[ty]
    IN IF key # NullKey
       THEN IF key \in DOMAIN sm
            THEN [store |-> put_secondarymap(s1, ty, rev, MapRemove(sm, key)), panic |-> FALSE]
            ELSE [store |-> s1, panic |-> TRUE]
       ELSE [store |-> s, panic |-> FALSE]

\* mutant: the value is copied to the current generation and stays in the
\* stale one
Store_mark_copies(s, ty, id) ==
    LET key == key_of(s, id)
        rev == Mode_reverse(s.mode)
        s1 == get_mut_secondarymap(s, ty, rev)
        sm == get_datamap(s1, rev)[ty]
    IN IF key # NullKey
       THEN IF key \in DOMAIN sm
            THEN LET s3 == get_mut_secondarymap(s1, ty, s.mode)
                 IN [store |-> put_secondarymap(s3, ty, s.mode,
                                   MapInsert(get_datamap(s3, s.mode)[ty], key, sm[key])),
                     panic |-> FALSE]
            ELSE [store |-> s1, panic |-> TRUE]
       ELSE [store |-> s, panic |-> FALSE]

\* returns [store, panic]: panic is TRUE when .unwrap() hits None
Store_mark_state_with_id(s, ty, id) ==
    LET key == key_of(s, id) IN
    IF key # NullKey
    THEN LET rev == Mode_reverse(s.mode)
             s1 == get_mut_secondarymap(s, ty, rev)
             sm == get_datamap(s1, rev)[ty]
         IN IF key \in DOMAIN sm
            THEN LET s2 == put_secondarymap(s1, ty, rev, MapRemove(sm, key))
                     s3 == get_mut_secondarymap(s2, ty, s.mode)
                 IN [store |-> put_secondarymap(s3, ty, s.mode,
                                   MapInsert(get_datamap(s3, s.mode)[ty], key, sm[key])),
                     panic |-> FALSE]
            ELSE [store |-> s1, panic |-> TRUE]
    ELSE [store |-> s, panic |-> FALSE]


\* ------------------------------------------------------------- state
VARIABLES
    CONTEXT_ID,   \* thread_local CONTEXT_ID: Cell<u64>
    STORE,        \* thread_local STORE: RefCell<Store>
    cells,        \* heap of Rc<T> allocations: cells[a] is the data Rc number a holds
    stack,        \* callbacks in flight, innermost last
    handles,      \* LocalState tokens use_state has returned, as <<id, type>>
    contexts,     \* Context objects create_context has returned, as <<id, type>>, in order
    lastOp,       \* the last API event (what was called, on what, what it observed)
    watch,        \* the <<id, type>> whose history the variables below record
    age,          \* sweeps since the last access to watch (0, 1, 2 = more; 3 = never accessed)
    uage,         \* sweeps since use_state last returned a handle to watch (2 = more or never)
    streak,       \* consecutive passes, up to this one, in which use_state returned it (2 = more)
    shadow,       \* the value last written to watch by a factory, set_with or Context::set
    reent,        \* some call on watch started inside a callback running on watch
    hadAtStart,   \* watch had a value when the current pass started
    hadBefore     \* the previous pass was abandoned and watch had a value when it started

vars == <<CONTEXT_ID, STORE, cells, stack, handles, contexts, lastOp, watch, age, uage,
          streak, shadow, reent, hadAtStart, hadBefore>>

NoPair == <<<<"none", 0>>, "none">>
Record(op, x, factory, val, err) ==
    [op |-> op, id |-> x[1], ty |-> x[2], factory |-> factory, val |-> val, err |-> err]

\* lastOp after an event: calls on watch and panics are recorded in full
Event(op, x, factory, val, err) ==
    IF x = watch \/ op \in {"panic", "sweep", "abandon"}
    THEN Record(op, x, factory, val, err)
    ELSE Record("other", NoPair, FALSE, None, "")

InitWatching(S) ==
    /\ CONTEXT_ID = 0
    /\ STORE = Store_new
    /\ cells = <<>>
    /\ stack = <<>>
    /\ handles = {}
    /\ contexts = <<>>
    /\ lastOp = Record("init", NoPair, FALSE, None, "")
    /\ watch \in S
    /\ age = 3
    /\ uage = 2
    /\ streak = 0
    /\ shadow = None
    /\ reent = FALSE
    /\ hadAtStart = FALSE
    /\ hadBefore = FALSE

Init == InitWatching(Pairs)
InitState == InitWatching(StatePairs)
InitContext == InitWatching(CtxPairs)

Panicked == lastOp.op = "panic"
On(x) == lastOp.id = x[1] /\ lastOp.ty = x[2]

Frame(kind, x, item) == [kind |-> kind, id |-> x[1], ty |-> x[2], item |-> item]
Top == stack[Len(stack)]
Pop == SubSeq(stack, 1, Len(stack) - 1)

\* a callback of a call on x is running (its value may be out of the store)
InWindow(x) == \E i \in 1..Len(stack) : stack[i].id = x[1] /\ stack[i].ty = x[2]

Exists(x) == state_exists_with_id(STORE, x[2], x[1])
InCurrent(x) == state_exists(STORE, x[2], STORE.mode, x[1])
InStale(x) == state_exists(STORE, x[2], Mode_reverse(STORE.mode), x[1])
CurrentValue(x) == get_datamap(STORE, STORE.mode)[x[2]][STORE.keys_by_id[x[1]]]
StaleValue(x) == get_datamap(STORE, Mode_reverse(STORE.mode))[x[2]][STORE.keys_by_id[x[1]]]

\* bookkeeping of a call on x
Touch(x) ==
    /\ age' = IF x = watch THEN 0 ELSE age
    /\ reent' = IF x = watch THEN reent \/ InWindow(x) ELSE reent

Bump(a, cap) == IF a < cap THEN a + 1 ELSE a

\* ------------------------------------------------------------- sweep()
Sweep ==
    /\ ~Panicked
    /\ STORE' = Store_sweep(STORE)
    /\ lastOp' = Event("sweep", NoPair, FALSE, None, "")
    /\ age' = Bump(age, 2)
    /\ uage' = Bump(uage, 2)
    /\ streak' = IF uage = 0 THEN streak ELSE 0
    /\ hadAtStart' = state_exists_with_id(STORE', watch[2], watch[1])
    /\ hadBefore' = FALSE
    /\ UNCHANGED <<CONTEXT_ID, cells, stack, handles, contexts, watch, shadow, reent>>

\* The driver gives up the pass it is running (control is back in the driver, so
\* no callback is in flight) and starts the next one without calling sweep().
Abandon ==
    /\ ~Panicked
    /\ stack = <<>>
    /\ lastOp' = Event("abandon", NoPair, FALSE, None, "")
    /\ hadBefore' = hadAtStart
    /\ hadAtStart' = Exists(watch)
    /\ UNCHANGED <<CONTEXT_ID, STORE, cells, stack, handles, contexts, watch, age, uage,
                   streak, shadow, reent>>

\* ------------------------------------------------------------- use_state
\* use_state::<ty>(data_fn) at position p; data is what data_fn() returns when it
\* is called (data_fn builds a value and does not call back into the library)
use_state(p, ty, data) ==
    LET id == Id_new(p)
        x == <<id, ty>>
        returned == /\ handles' = handles \cup {x}
                    /\ uage' = IF x = watch THEN 0 ELSE uage
                    /\ streak' = IF x = watch /\ uage # 0 THEN Bump(streak, 2) ELSE streak
    IN
    /\ ~Panicked
    /\ Touch(x)
    /\ IF ~state_exists_with_id(STORE, ty, id)
       THEN /\ STORE' = Store_set_state_with_id(STORE, ty, data, id)
            /\ lastOp' = Event("use_state", x, TRUE, Some(data), "")
            /\ shadow' = IF x = watch THEN Some(data) ELSE shadow
            /\ returned
       ELSE IF ~state_marked_with_id(STORE, ty, id)
       THEN LET r == Store_mark_state_with_id(STORE, ty, id) IN
            /\ STORE' = r.store
            /\ IF r.panic
               THEN /\ lastOp' = Event("panic", x, FALSE, None, "unwrap on None")
                    /\ UNCHANGED <<handles, uage, streak>>
               ELSE /\ lastOp' = Event("use_state", x, FALSE, None, "")
                    /\ returned
            /\ UNCHANGED shadow
       ELSE /\ lastOp' = Event("use_state", x, FALSE, None, "")
            /\ returned
            /\ UNCHANGED <<STORE, shadow>>
    /\ UNCHANGED <<CONTEXT_ID, cells, stack, contexts, watch, hadAtStart, hadBefore>>

UseState == \E p \in Positions, ty \in StateTypes, data \in Vals : use_state(p, ty, data)

\* ------------------------------------------------- LocalState::get / set
\* read_state_with_id / update_state_with_id up to the call of func
take_for(kind, x) ==
    LET r == Store_remove_state_with_id(STORE, x[2], x[1]) IN
    /\ ~Panicked
    /\ Touch(x)
    /\ STORE' = r.store
    /\ IF r.item = None
       THEN /\ lastOp' = Event("panic", x, FALSE, None, "State does not exist.")
            /\ UNCHANGED stack
       ELSE /\ Len(stack) < MaxDepth
            /\ stack' = Append(stack, Frame(kind, x, Unwrap(r.item)))
            /\ lastOp' = Event("take", x, FALSE, r.item, "")

read_state_with_id(x) == take_for("read", x)
update_state_with_id(x) == take_for("update", x)

LocalState_get ==
    \E x \in handles :
        /\ read_state_with_id(x)
        /\ UNCHANGED <<CONTEXT_ID, cells, handles, contexts, watch, uage, streak, shadow,
                       hadAtStart, hadBefore>>

LocalState_set ==
    \E x \in handles :
        /\ update_state_with_id(x)
        /\ UNCHANGED <<CONTEXT_ID, cells, handles, contexts, watch, uage, streak, shadow,
                       hadAtStart, hadBefore>>

\* ------------------------------------------------------------- Context
Created == {contexts[i] : i \in 1..Len(contexts)}

\* mutant: the counter advances only the first time a call site (one per type)
\* is executed; executing it again returns a context bound to the same identity
create_context_per_site(ty) ==
    LET seen == {i \in 1..Len(contexts) : contexts[i][2] = ty}
        x == IF seen = {} THEN <<Id_in_context(CONTEXT_ID), ty>>
             ELSE contexts[CHOOSE i \in seen : TRUE]
    IN
    /\ ~Panicked
    /\ Len(contexts) < MaxContexts
    /\ CONTEXT_ID' = IF seen = {} THEN CONTEXT_ID + 1 ELSE CONTEXT_ID
    /\ contexts' = Append(contexts, x)
    /\ lastOp' = Event("create_context", x, FALSE, None, "")
    /\ UNCHANGED <<STORE, cells, stack, handles, watch, age, uage, streak, shadow, reent,
                   hadAtStart, hadBefore>>

create_context(ty) ==
    LET context_id == CONTEXT_ID
        x == <<Id_in_context(context_id), ty>>
    IN
    /\ ~Panicked
    /\ CONTEXT_ID < MaxContexts
    /\ CONTEXT_ID' = CONTEXT_ID + 1
    /\ contexts' = Append(contexts, x)
    /\ lastOp' = Event("create_context", x, FALSE, None, "")
    /\ UNCHANGED <<STORE, cells, stack, handles, watch, age, uage, streak, shadow, reent,
                   hadAtStart, hadBefore>>

CreateContext == \E ty \in CtxTypes : create_context(ty)

\* Context::set(data): Rc::new(data) is allocation number Len(cells) + 1
Context_set(x, data) ==
    LET rc == Len(cells) + 1 IN
    /\ ~Panicked
    /\ Len(cells) < MaxCells
    /\ Touch(x)
    /\ cells' = Append(cells, data)
    /\ STORE' = Store_set_state_with_id(STORE, x[2], rc, x[1])
    /\ shadow' = IF x = watch THEN Some(rc) ELSE shadow
    /\ lastOp' = Event("ctx_set", x, FALSE, Some(rc), "")
    /\ UNCHANGED <<CONTEXT_ID, stack, handles, contexts, watch, uage, streak, hadAtStart,
                   hadBefore>>

ContextSet == \E x \in Created, data \in Vals : Context_set(x, data)

\* Context::get(f) up to the call of f
Context_get(x) ==
    /\ ~Panicked
    /\ Touch(x)
    /\ IF ~state_exists_with_id(STORE, x[2], x[1])
       THEN /\ lastOp' = Event("panic", x, FALSE, None,
                   "Attempted to get data from a context which was never set.")
            /\ UNCHANGED <<STORE, stack>>
       ELSE LET m == IF ~state_marked_with_id(STORE, x[2], x[1])
                     THEN Store_mark_state_with_id(STORE, x[2], x[1])
                     ELSE [store |-> STORE, panic |-> FALSE]
                r == Store_remove_state_with_id(m.store, x[2], x[1])
            IN IF m.panic
               THEN /\ STORE' = m.store
                    /\ lastOp' = Event("panic", x, FALSE, None, "unwrap on None")
                    /\ UNCHANGED stack
               ELSE /\ STORE' = r.store
                    /\ IF r.item = None
                       THEN /\ lastOp' = Event("panic", x, FALSE, None, "State does not exist.")
                            /\ UNCHANGED stack
                       ELSE /\ Len(stack) < MaxDepth
                            /\ stack' = Append(stack, Frame("ctxread", x, Unwrap(r.item)))
                            /\ lastOp' = Event("take", x, FALSE, r.item, "")
    /\ UNCHANGED <<CONTEXT_ID, cells, handles, contexts, watch, uage, streak, shadow,
                   hadAtStart, hadBefore>>

ContextGet == \E x \in Created : Context_get(x)

\* ------------------------------------------------------ callback returns
\* the innermost callback returns and the call that ran it finishes:
\*   read   : set_state_with_id(item, id) after func(&item)
\*   update : set_state_with_id(item, id) after func(&mut item) left data in item
\*   ctxread: set_state_with_id(item, id) after f(&item)
return_with(data) ==
    LET f == Top
        x == <<f.id, f.ty>>
        item == IF f.kind = "update" THEN data ELSE f.item
    IN
    /\ ~Panicked
    /\ stack # <<>>
    /\ IF f.kind = "update" THEN data \in Vals ELSE data = f.item
    /\ stack' = Pop
    /\ STORE' = Store_set_state_with_id(STORE, f.ty, item, f.id)
    /\ lastOp' = Event(CASE f.kind = "update" -> "set_with"
                         [] f.kind = "read" -> "get"
                         [] OTHER -> "ctx_get",
                       x, FALSE, Some(item), "")
    /\ shadow' = IF f.kind = "update" /\ x = watch THEN Some(item) ELSE shadow
    /\ age' = IF x = watch THEN 0 ELSE age
    /\ UNCHANGED <<CONTEXT_ID, cells, handles, contexts, watch, uage, streak, reent, hadAtStart,
                   hadBefore>>

Return == \E data \in Vals \cup 1..MaxCells : return_with(data)

Next ==
    \/ UseState
    \/ LocalState_get
    \/ LocalState_set
    \/ CreateContext
    \/ ContextSet
    \/ ContextGet
    \/ Return
    \/ Sweep
    \/ Abandon

Spec == Init /\ [][Next]_vars

\* the driver sweeps after every pass; only use_state and LocalState are used
NextState ==
    \/ UseState
    \/ LocalState_get
    \/ LocalState_set
    \/ Return
    \/ Sweep

SpecState == InitState /\ [][NextState]_vars

\* as SpecState, and the driver may abandon a pass
NextAbandon ==
    \/ UseState
    \/ LocalState_get
    \/ LocalState_set
    \/ Return
    \/ Sweep
    \/ Abandon

SpecAbandon == InitState /\ [][NextAbandon]_vars

\* the driver sweeps after every pass; only Context is used
NextContext ==
    \/ CreateContext
    \/ ContextSet
    \/ ContextGet
    \/ Return
    \/ Sweep

SpecContext == InitContext /\ [][NextContext]_vars

\* ------------------------------------------------ the Store used directly
\* Store's methods called one at a time on any identity and type, as a caller
\* that does not follow use_state's exists / marked / mark protocol may.
Store_set(id, ty, data) ==
    /\ ~Panicked
    /\ STORE' = Store_set_state_with_id(STORE, ty, data, id)
    /\ lastOp' = Record("set", <<id, ty>>, FALSE, Some(data), "")

Store_take(id, ty) ==
    LET r == Store_remove_state_with_id(STORE, ty, id) IN
    /\ ~Panicked
    /\ STORE' = r.store
    /\ lastOp' = Record("remove", <<id, ty>>, FALSE, r.item, "")

Store_mark(id, ty) ==
    LET r == Store_mark_state_with_id(STORE, ty, id) IN
    /\ ~Panicked
    /\ STORE' = r.store
    /\ lastOp' = IF r.panic
                 THEN Record("panic", <<id, ty>>, FALSE, None, "unwrap on None")
                 ELSE Record("mark", <<id, ty>>, FALSE, None, "")

StoreSet ==
    /\ \E id \in PosIds, ty \in StateTypes, data \in Vals : Store_set(id, ty, data)
    /\ UNCHANGED <<CONTEXT_ID, cells, stack, handles, contexts, watch, age, uage, streak,
                   shadow, reent, hadAtStart, hadBefore>>

StoreTake ==
    /\ \E id \in PosIds, ty \in StateTypes : Store_take(id, ty)
    /\ UNCHANGED <<CONTEXT_ID, cells, stack, handles, contexts, watch, age, uage, streak,
                   shadow, reent, hadAtStart, hadBefore>>

StoreMark ==
    /\ \E id \in PosIds, ty \in StateTypes : Store_mark(id, ty)
    /\ UNCHANGED <<CONTEXT_ID, cells, stack, handles, contexts, watch, age, uage, streak,
                   shadow, reent, hadAtStart, hadBefore>>

NextStore ==
    \/ StoreSet
    \/ StoreTake
    \/ StoreMark
    \/ Sweep

SpecStore == InitState /\ [][NextStore]_vars

\* =================================================================== claims
LastPair == <<lastOp.id, lastOp.ty>>

\* use_state has just returned a handle to watch
UseStateReturned == lastOp.op = "use_state" /\ On(watch)

\* Context::get or LocalState::get / set has just been called on watch: it either
\* took the value and started the callback, or panicked
AccessCalled == lastOp.op \in {"take", "panic"} /\ On(watch)

NeverSet == "Attempted to get data from a context which was never set."

\* ---------------------------------------------------------------------- C1
\* C1 (sweep reclamation): right after a sweep(), a value that was accessed in
\* some earlier pass but in neither of the last two passes (age = 2: the
\* pass the sweep ended and the one before it saw no access after the last
\* one) is in neither generation: exists<T>(id) is false.
C1_SweepReclaims ==
    (lastOp.op = "sweep" /\ age = 2) => ~Exists(watch)

\* the value was created (shadow), left alone for a whole pass and swept away
C1_Witness ==
    /\ lastOp.op = "sweep"
    /\ age = 2
    /\ shadow # None
    /\ ~Exists(watch)

\* ---------------------------------------------------------------------- C2
\* use_state was called for watch in this pass or in the previous one
UsedEveryPass == uage <= 1

\* C2 as stated (sweep retention): when use_state is called for watch in every
\* pass, (a) a use_state that follows one of this or the previous pass does not
\* invoke the factory, (b) the value is in the store whenever no callback on it
\* is running, (c) a get through the handle of this pass observes the value
\* last written by the factory or set_with.
C2_AsStated ==
    /\ [][(UseStateReturned' /\ UsedEveryPass) => ~lastOp'.factory]_vars
    /\ []((UsedEveryPass /\ ~InWindow(watch)) => Exists(watch))
    /\ []((lastOp.op = "get" /\ On(watch) /\ uage = 0) => lastOp.val = shadow)

\* C2 amended: the same, for an identity/type on which no call was ever started
\* from inside a callback of a get / set_with on that same identity/type.
C2_Retention ==
    /\ [][(UseStateReturned' /\ UsedEveryPass /\ ~reent') => ~lastOp'.factory]_vars
    /\ []((UsedEveryPass /\ ~InWindow(watch) /\ ~reent) => Exists(watch))
    /\ []((lastOp.op = "get" /\ On(watch) /\ uage = 0 /\ ~reent) => lastOp.val = shadow)

\* a get in the second or a later pass of an unbroken run of passes observes 1,
\* the value a set_with left
C2_Witness ==
    /\ lastOp.op = "get"
    /\ On(watch)
    /\ uage = 0
    /\ streak = 2
    /\ ~reent
    /\ lastOp.val = Some(1)
    /\ shadow = Some(1)

\* ---------------------------------------------------------------------- C3
\* C3 as stated: a get / set_with on a handle use_state returned never hits
\* "State does not exist.".
C3_AsStated ==
    ~(lastOp.op = "panic" /\ lastOp.err = "State does not exist." /\ LastPair \in handles)

\* C3 amended: a get / set_with on the handle use_state returned in this pass
\* (no sweep() since), on an identity/type on which no call was started from
\* inside a callback on that same identity/type, finds the value.
C3_HandleOfThisPass ==
    (AccessCalled /\ uage = 0 /\ ~reent) => lastOp.op = "take"

C3_Witness ==
    /\ AccessCalled
    /\ uage = 0
    /\ ~reent
    /\ streak = 2
    /\ lastOp.op = "take"

\* ---------------------------------------------------------------------- C4
\* C4 as stated: a use_state for watch that follows another one of the same pass
\* (uage = 0) does not invoke the factory, and its handle refers to the value
\* the first one's handle refers to: the value last written through either.
C4_AsStated ==
    [][(UseStateReturned' /\ uage = 0)
        => /\ ~lastOp'.factory
           /\ InCurrent(watch)'
           /\ Some(CurrentValue(watch))' = shadow']_vars

\* C4 amended: the same, when the second call is not made from inside a callback
\* of a get / set_with on that identity/type and no earlier call was.
C4_FetchOrCreate ==
    [][(UseStateReturned' /\ uage = 0 /\ ~reent')
        => /\ ~lastOp'.factory
           /\ InCurrent(watch)'
           /\ Some(CurrentValue(watch))' = shadow']_vars

\* a repeated use_state of the pass finds the value 1 in the current generation
C4_Witness ==
    /\ UseStateReturned
    /\ ~lastOp.factory
    /\ uage = 0
    /\ ~reent
    /\ shadow = Some(1)
    /\ InCurrent(watch)
    /\ ~InStale(watch)

\* ---------------------------------------------------------------------- C5
\* C5 as stated (context sharing): once Context::set was called on watch, every
\* Context::get on it, in the same pass or a later one, succeeds and is handed
\* the Rc the last Context::set stored (the same allocation).
C5_AsStated ==
    [][(AccessCalled' /\ shadow # None)
        => /\ lastOp'.op = "take"
           /\ lastOp'.val = shadow]_vars

\* C5 amended: the same, when the context was accessed (set or get) in this pass
\* or in the previous one, and no call on it was started from inside the
\* callback of a get on that same context.
C5_ContextSharing ==
    [][(AccessCalled' /\ shadow # None /\ age <= 1 /\ ~reent')
        => /\ lastOp'.op = "take"
           /\ lastOp'.val = shadow]_vars

\* a get in a pass after the one that set the context (the set registered the
\* type's table in generation A, the get's mark registered it in generation B):
\* it is handed the Rc of that set
C5_Witness ==
    /\ AccessCalled
    /\ lastOp.op = "take"
    /\ shadow # None
    /\ lastOp.val = shadow
    /\ ~reent
    /\ Len(cells) = 1
    /\ STORE.mode = "B"
    /\ watch[2] \in DOMAIN STORE.data_a
    /\ watch[2] \in DOMAIN STORE.data_b

\* ---------------------------------------------------------------------- C6
\* C6 (context misuse): Context::get on a context on which Context::set was
\* never called panics with "Attempted to get data from a context which was
\* never set.", does not start the callback, and leaves the store as it was.
C6_NeverSetPanics ==
    [][(AccessCalled' /\ shadow = None)
        => /\ lastOp'.op = "panic"
           /\ lastOp'.err = NeverSet
           /\ STORE' = STORE
           /\ stack' = stack]_vars

\* the panic on a context that was created and never set, while another
\* context holds a value
C6_Witness ==
    /\ lastOp.op = "panic"
    /\ lastOp.err = NeverSet
    /\ On(watch)
    /\ watch \in Created
    /\ shadow = None
    /\ Len(cells) > 0

\* ---------------------------------------------------------------------- C7
\* mark<T>(id)'s precondition: a value in the stale generation, none in the
\* current one
MarkPrecondition(x) == InStale(x) /\ ~InCurrent(x)

\* C7 as stated: a mark<T>(id) called when its precondition does not hold fails
\* loudly (panics); it never returns normally.
C7_AsStated ==
    [][\A x \in StatePairs :
          (lastOp'.op \in {"mark", "panic"} /\ On(x)' /\ ~MarkPrecondition(x))
              => lastOp'.op = "panic"]_vars

\* C7, what the code does in the three violating cases: without a slot key it returns
\* and leaves the store as it was; with a key and no stale value it panics (after
\* registering the type's table in the stale generation); with a stale value and
\* a current one it returns, the stale value having replaced the current one.
C7_MarkOutcomes ==
    [][\A x \in StatePairs :
          (lastOp'.op \in {"mark", "panic"} /\ On(x)' /\ ~MarkPrecondition(x))
        =>
           IF key_of(STORE, x[1]) = NullKey
           THEN lastOp'.op = "mark" /\ STORE' = STORE
           ELSE IF ~InStale(x)
           THEN lastOp'.op = "panic"
           ELSE /\ lastOp'.op = "mark"
                /\ InCurrent(x)
                /\ InCurrent(x)'
                /\ ~InStale(x)'
                /\ CurrentValue(x)' = StaleValue(x)]_vars

\* a mark on an identity that has no slot key returned normally
C7_Witness ==
    /\ lastOp.op = "mark"
    /\ STORE.keys_by_id = EmptyMap

\* ---------------------------------------------------------------------- C8
\* C8 as stated: once Context::set was called on watch, every Context::get on it
\* that follows an access of the same pass (age = 0), a get made from inside the
\* callback of another get on it included, succeeds and is handed the Rc the
\* last Context::set stored.
C8_AsStated ==
    [][(AccessCalled' /\ shadow # None /\ age = 0)
        => /\ lastOp'.op = "take"
           /\ lastOp'.val = shadow]_vars

\* C8 amended: the same for the gets that are not made from inside the callback
\* of a get on that same context (and no earlier call on it was).
C8_SamePassReaders ==
    [][(AccessCalled' /\ shadow # None /\ age = 0 /\ ~reent')
        => /\ lastOp'.op = "take"
           /\ lastOp'.val = shadow]_vars

\* a get on watch made from inside the callback of a get on another context, in
\* the pass that set watch
C8_Witness ==
    /\ AccessCalled
    /\ lastOp.op = "take"
    /\ lastOp.val = shadow
    /\ ~reent
    /\ Len(stack) = 2
    /\ stack[1].id # watch[1]
    /\ InStale(<<stack[1].id, stack[1].ty>>) = FALSE
    /\ STORE.mode = "A"

\* ---------------------------------------------------------------------- C9
\* C9 as stated (abandoned pass): when the previous pass was abandoned without
\* sweep() and watch had a value when it started, watch still has a value when
\* the next pass starts, and a use_state for it in that pass does not invoke the
\* factory and leaves the handle on the value last written.
C9_AsStated ==
    /\ []((lastOp.op = "abandon" /\ hadBefore) => Exists(watch))
    /\ [][(UseStateReturned' /\ hadBefore)
           => /\ ~lastOp'.factory
              /\ InCurrent(watch)'
              /\ Some(CurrentValue(watch))' = shadow']_vars

\* C9 amended: the same, when the use_state is not made from inside a callback
\* of a get / set_with on that identity/type and no earlier call was.
C9_AbandonedPass ==
    /\ []((lastOp.op = "abandon" /\ hadBefore) => Exists(watch))
    /\ [][(UseStateReturned' /\ hadBefore /\ ~reent')
           => /\ ~lastOp'.factory
              /\ InCurrent(watch)'
              /\ Some(CurrentValue(watch))' = shadow']_vars

\* use_state in the pass after an abandoned one, which had not touched watch
\* (its value was still in the stale generation): the value 1 is back in the
\* current generation, the factory was not invoked
C9_Witness ==
    /\ UseStateReturned
    /\ hadBefore
    /\ uage = 0
    /\ streak = 2
    /\ ~reent
    /\ ~lastOp.factory
    /\ InCurrent(watch)
    /\ shadow = Some(1)

\* --------------------------------------------------------------------- C10
\* what a Context::get on x would observe: whether a value exists, and which
ContextView(x) ==
    IF InCurrent(x) THEN Some(CurrentValue(x))
    ELSE IF InStale(x) THEN Some(StaleValue(x))
    ELSE None

\* C10 (distinct context identities): the contexts create_context has returned
\* are bound to pairwise distinct identities, whatever their types, and a
\* Context::set on another context leaves what a get on watch would observe,
\* and whether it would fail, as it was.
C10_DistinctIdentities ==
    /\ [](\A i, j \in 1..Len(contexts) : i # j => contexts[i][1] # contexts[j][1])
    /\ [][(lastOp'.op = "other" /\ cells' # cells)
           => /\ ContextView(watch)' = ContextView(watch)
              /\ Exists(watch)' = Exists(watch)]_vars

\* two contexts of the same type exist, watch holds the Rc of its own set and the
\* other context has just been set
C10_Witness ==
    /\ Len(contexts) = 2
    /\ contexts[1][2] = contexts[2][2]
    /\ Len(cells) = 2
    /\ lastOp.op = "other"
    /\ shadow = Some(1)
    /\ ContextView(watch) = Some(1)

\* --------------------------------------------------------------------- C11
\* C11 (idempotent marking): a use_state for watch called when its value is in
\* the current generation leaves the whole store as it was (no move from the
\* stale generation, the stored value unchanged) and does not invoke the
\* factory.
C11_IdempotentMarking ==
    [][(UseStateReturned' /\ InCurrent(watch))
        => /\ STORE' = STORE
           /\ ~lastOp'.factory
           /\ shadow' = shadow]_vars

\* a use_state that found the value in the current generation: the value is the
\* one a set_with left, and no mark has moved it there (a mark would have
\* registered the type's table in generation B)
C11_Witness ==
    /\ UseStateReturned
    /\ ~lastOp.factory
    /\ ~reent
    /\ InCurrent(watch)
    /\ CurrentValue(watch) = 1
    /\ STORE.mode = "A"
    /\ STORE.data_b = EmptyMap

\* --------------------------------------------------------------------- C12
\* C12 (frame of sweep): sweep() flips the mode; the generation that was current
\* is unchanged and is now the stale one; the generation that was stale is
\* empty and is now the current one; the slot keys and the identity index are
\* unchanged. It is enabled in every state, the empty store included.
C12_SweepFrame ==
    [][lastOp'.op = "sweep"
        => /\ STORE'.mode = Mode_reverse(STORE.mode)
           /\ get_datamap(STORE', Mode_reverse(STORE'.mode)) = get_datamap(STORE, STORE.mode)
           /\ get_datamap(STORE', STORE'.mode) = EmptyMap
           /\ STORE'.keys_by_id = STORE.keys_by_id
           /\ STORE'.ids = STORE.ids]_vars

\* after a sweep the stale generation holds values of both types, the current
\* one is empty
C12_Witness ==
    /\ lastOp.op = "sweep"
    /\ STORE.mode = "A"
    /\ STORE.data_a = EmptyMap
    /\ \A ty \in StateTypes : \E p \in Positions : InStale(<<Id_new(p), ty>>)

\* --------------------------------------------------------------------- C13
\* the table of type ty in generation m of store s, empty when not registered
TableOf(s, ty, m) == IF ty \in DOMAIN get_datamap(s, m) THEN get_datamap(s, m)[ty] ELSE EmptyMap

\* C13 (frame of set, idempotence): set<T>(id, value) leaves the mode and the
\* stale generation as they were; in the current generation only T's table
\* changes, and in it only id's slot, which now holds value; id gets a slot key
\* only when it has none, otherwise the index is unchanged; the same set
\* performed again leaves the store as the first one left it.
C13_SetFrame ==
    [][\A x \in StatePairs, data \in Vals :
          (lastOp'.op = "set" /\ On(x)' /\ lastOp'.val = Some(data))
              => LET cur == STORE.mode
                     rev == Mode_reverse(STORE.mode)
                     key == STORE'.keys_by_id[x[1]]
                 IN /\ STORE'.mode = cur
                    /\ get_datamap(STORE', rev) = get_datamap(STORE, rev)
                    /\ \A ty \in StateTypes \ {x[2]} :
                          /\ ty \in DOMAIN get_datamap(STORE', cur)
                                <=> ty \in DOMAIN get_datamap(STORE, cur)
                          /\ TableOf(STORE', ty, cur) = TableOf(STORE, ty, cur)
                    /\ TableOf(STORE', x[2], cur) = MapInsert(TableOf(STORE, x[2], cur), key, data)
                    /\ IF x[1] \in DOMAIN STORE.keys_by_id
                       THEN STORE'.keys_by_id = STORE.keys_by_id /\ STORE'.ids = STORE.ids
                       ELSE /\ STORE'.ids = Append(STORE.ids, x[1])
                            /\ STORE'.keys_by_id = MapInsert(STORE.keys_by_id, x[1], Len(STORE'.ids))
                    /\ Store_set_state_with_id(STORE', x[2], data, x[1]) = STORE']_vars

\* a set made while the stale generation holds another value for the same
\* identity and type: both generations hold one
C13_Witness ==
    /\ lastOp.op = "set"
    /\ InStale(LastPair)
    /\ InCurrent(LastPair)
    /\ StaleValue(LastPair) # CurrentValue(LastPair)
    /\ lastOp.val = Some(CurrentValue(LastPair))

\* --------------------------------------------------------------------- C14
\* store s with data as the value of x in x's table of the current generation,
\* everything else as in s
WithCurrentValue(s, x, data) ==
    put_secondarymap(s, x[2], s.mode, MapInsert(TableOf(s, x[2], s.mode), s.keys_by_id[x[1]], data))

\* C14 (take/set round trip), for get / set_with on the handle of watch:
\*  (a) the take finds the value in the current generation and removes it, so
\*      that setting a value back right then gives the store of before the call
\*      with that value in watch's slot: the same store when the value is the
\*      one taken (get), a store differing in that slot only (set_with);
\*  (b) the set-back is that set: of the item taken (get) or of what the
\*      callback left (set_with), into the store as the callback left it;
\*  (c) the value is out of the current generation right after the take and in
\*      it right after the set-back.
C14_TakeSetRoundTrip ==
    /\ [][(lastOp'.op = "take" /\ On(watch)')
           => /\ InCurrent(watch)
              /\ lastOp'.val = Some(CurrentValue(watch))
              /\ ~InCurrent(watch)'
              /\ Store_set_state_with_id(STORE', watch[2], CurrentValue(watch), watch[1]) = STORE
              /\ \A data \in Vals :
                    Store_set_state_with_id(STORE', watch[2], data, watch[1])
                        = WithCurrentValue(STORE, watch, data)]_vars
    /\ [][(lastOp'.op \in {"get", "set_with"} /\ On(watch)')
           => /\ stack # <<>>
              /\ Top.id = watch[1] /\ Top.ty = watch[2]
              /\ lastOp'.op = "get" => lastOp'.val = Some(Top.item)
              /\ STORE' = Store_set_state_with_id(STORE, watch[2], Unwrap(lastOp'.val), watch[1])
              /\ InCurrent(watch)'
              /\ Some(CurrentValue(watch)') = lastOp'.val]_vars

\* a set_with has set back 1 in place of the 0 it took, while the other type
\* holds a value for the same identity
C14_Witness ==
    /\ lastOp.op = "set_with"
    /\ On(watch)
    /\ ~reent
    /\ lastOp.val = Some(1)
    /\ CurrentValue(watch) = 1
    /\ \E x \in StatePairs \ {watch} : InCurrent(x) /\ CurrentValue(x) = 0

\* --------------------------------------------------------------------- C15
\* C15 (slot-key index): keys_by_id gives no two identities the same slot key,
\* every key it gives is a non-null key of ids naming that identity, and no
\* step removes an identity from it or changes an identity's key.
C15_SlotKeyIndex ==
    /\ [](\A a, b \in DOMAIN STORE.keys_by_id :
             a # b => STORE.keys_by_id[a] # STORE.keys_by_id[b])
    /\ [](\A a \in DOMAIN STORE.keys_by_id :
             /\ STORE.keys_by_id[a] # NullKey
             /\ STORE.keys_by_id[a] \in 1..Len(STORE.ids)
             /\ STORE.ids[STORE.keys_by_id[a]] = a)
    /\ [][\A a \in DOMAIN STORE.keys_by_id :
             /\ a \in DOMAIN STORE'.keys_by_id
             /\ STORE'.keys_by_id[a] = STORE.keys_by_id[a]]_vars

\* two identities have their slot keys although sweeps have reclaimed both
\* their values
C15_Witness ==
    /\ lastOp.op = "sweep"
    /\ Cardinality(DOMAIN STORE.keys_by_id) = 2
    /\ STORE.data_a = EmptyMap
    /\ STORE.data_b = EmptyMap
    /\ shadow # None

\* --------------------------------------------------------------------- C16
\* The call graphs considered have one create_context call site per value type
\* (create_context::<T>() names its type at the call site), so the call sites
\* executed so far are the types of the contexts created so far.
CallSitesSeen == {contexts[i][2] : i \in 1..Len(contexts)}

\* C16 as stated: the counter has advanced once per distinct create_context call
\* site executed; executing a call site again does not advance it.
C16_AsStated ==
    CONTEXT_ID = Cardinality(CallSitesSeen)

\* C16 amended: the counter advances once per create_context call, whatever the
\* call site and the pass: it counts the contexts created, the context created
\* by a call is bound to the identity of the counter's value before the call,
\* and no other operation changes the counter.
C16_CounterPerCall ==
    /\ [](CONTEXT_ID = Len(contexts))
    /\ [][CONTEXT_ID' # CONTEXT_ID
           => /\ CONTEXT_ID' = CONTEXT_ID + 1
              /\ Len(contexts') = Len(contexts) + 1
              /\ contexts'[Len(contexts')][1] = Id_in_context(CONTEXT_ID)]_vars
    /\ [][Len(contexts') # Len(contexts) => CONTEXT_ID' = CONTEXT_ID + 1]_vars

\* the call site of contexts[1] has been executed again in a later pass (the
\* value set on contexts[1] is already in the stale generation): the counter
\* has advanced to 2 and the new context is bound to another identity
C16_Witness ==
    /\ lastOp.op = "create_context"
    /\ On(watch)
    /\ Len(contexts) = 2
    /\ watch = contexts[2]
    /\ contexts[1][2] = contexts[2][2]
    /\ contexts[1][1] # contexts[2][1]
    /\ CONTEXT_ID = 2
    /\ InStale(contexts[1])
    /\ ~InCurrent(contexts[1])

\* --------------------------------------------------------------------- C17
\* Context::set was called exactly once, on watch
SetOnce == shadow # None /\ Len(cells) = 1

\* C17 (Context::get marks live): (a) when a Context::get on watch has returned,
\* the Rc it handed to its callback is in the current generation; (b) a context
\* set once and accessed in this pass or the previous one, every access having
\* succeeded, has its value whenever no get on it is running, whatever the
\* number of sweeps so far; (c) and a get on it then succeeds and is handed the
\* Rc of that set.
C17_GetMarksLive ==
    /\ []((lastOp.op = "ctx_get" /\ On(watch))
             => InCurrent(watch) /\ Some(CurrentValue(watch)) = lastOp.val)
    /\ []((SetOnce /\ age <= 1 /\ ~InWindow(watch) /\ ~Panicked)
             => Exists(watch) /\ ContextView(watch) = shadow)
    /\ [][(AccessCalled' /\ SetOnce /\ age <= 1 /\ ~InWindow(watch))
             => lastOp'.op = "take" /\ lastOp'.val = shadow]_vars

\* a get has returned in a pass that follows at least three sweeps since the
\* only set (generation A was cleared after the set wrote into it, and the
\* mode is B again): the Rc of that set is in the current generation
C17_Witness ==
    /\ lastOp.op = "ctx_get"
    /\ On(watch)
    /\ SetOnce
    /\ lastOp.val = shadow
    /\ InCurrent(watch)
    /\ STORE.mode = "B"
    /\ STORE.ids[1] = watch[1]
    /\ watch[2] \in DOMAIN STORE.data_a
    /\ STORE.data_a[watch[2]] = EmptyMap
    /\ stack = <<>>

\* --------------------------------------------------------------------- C18
\* both generations hold an Rc for x and the stale one is the older (Rc
\* allocations are numbered in order): a Context::set was made in this pass
\* while the stale generation held the value of an earlier set
SetOverStale(x) == InCurrent(x) /\ InStale(x) /\ StaleValue(x) < CurrentValue(x)

C19_AsStated ==
    /\ [](\A x \in StatePairs : ~InWindow(x) => ~(InCurrent(x) /\ InStale(x)))
    /\ [](~(lastOp.op = "panic" /\ lastOp.err = "unwrap on None"))
    /\ [][(UseStateReturned' /\ ~lastOp'.factory /\ STORE' # STORE)
           => /\ InStale(watch) /\ ~InCurrent(watch)
              /\ InCurrent(watch)' /\ ~InStale(watch)'
              /\ CurrentValue(watch)' = StaleValue(watch)]_vars

\* C19 amended: (a) holds for an identity/type on which no call was started
\* from inside the callback of a get / set_with on that same identity/type;
\* (b) and (c) hold as stated.
C19_OneGeneration ==
    /\ []((~InWindow(watch) /\ ~reent) => ~(InCurrent(watch) /\ InStale(watch)))
    /\ [](~(lastOp.op = "panic" /\ lastOp.err = "unwrap on None"))
    /\ [][(UseStateReturned' /\ ~lastOp'.factory /\ STORE' # STORE)
           => /\ InStale(watch) /\ ~InCurrent(watch)
              /\ InCurrent(watch)' /\ ~InStale(watch)'
              /\ CurrentValue(watch)' = StaleValue(watch)]_vars

\* use_state has moved the value 1, written by a set_with in the previous pass,
\* from generation A, whose table for the type is now empty, to generation B
C19_Witness ==
    /\ UseStateReturned
    /\ ~lastOp.factory
    /\ ~reent
    /\ STORE.mode = "B"
    /\ InCurrent(watch)
    /\ CurrentValue(watch) = 1
    /\ watch[2] \in DOMAIN STORE.data_a
    /\ STORE.data_a[watch[2]] = EmptyMap
    /\ shadow = Some(1)

====
